---- MODULE Spec2Model ----
(***************************************************************************)
(* Traffic Sign Classification API (src/main.py): a FastAPI application    *)
(* holding one global Keras model handle, loaded by the startup hook, and  *)
(* four handlers: GET /, GET /health, POST /predict, GET /labels.          *)
(*                                                                         *)
(* Modelling conventions                                                   *)
(*  - Python None is the string None.  A content type is a tuple of        *)
(*    one-character strings, so that str.startswith is computed, and the   *)
(*    absent content type (UploadFile.content_type is None) is the tuple   *)
(*    NoContentType.                                                       *)
(*  - A model score is an integer in fixed point: ScoreUnit stands for     *)
(*    1.0, and NaN for a float32 not-a-number.                             *)
(*  - A model output vector predictions[0] is a function on 0..n-1.        *)
(*  - resp is the response being sent; a handler runs to its response (or  *)
(*    to its await) in one step of the event loop, and SendResponse hands  *)
(*    the response to the client.                                          *)
(***************************************************************************)
EXTENDS Integers, Sequences, FiniteSets, TLC

VARIABLES model, startup, labels, pending, resp

vars == <<model, startup, labels, pending, resp>>

----------------------------------------------------------------------------
(* Bounds of the model *)

\* Output vectors of every length 0..MaxShortLen are enumerated in full.
MaxShortLen == 3

\* At most this many /predict requests are suspended at `await file.read()`.
MaxInFlight == 2

\* Fixed-point resolution of a score: ScoreUnit stands for the float 1.0.
ScoreUnit == 100

----------------------------------------------------------------------------
(* Values *)

None == "None"

KerasModel == "keras_model"

MODEL_PATH == "models/traffic_sign_model.h5"

NaN == 0 - 1

LabelNames ==
    << "Speed limit (20km/h)", "Speed limit (30km/h)", "Speed limit (50km/h)",
       "Speed limit (60km/h)", "Speed limit (70km/h)", "Speed limit (80km/h)",
       "End of speed limit (80km/h)", "Speed limit (100km/h)", "Speed limit (120km/h)",
       "No passing", "No passing for vehicles over 3.5 metric tons",
       "Right-of-way at the next intersection", "Priority road", "Yield",
       "Stop", "No vehicles", "Vehicles over 3.5 metric tons prohibited",
       "No entry", "General caution", "Dangerous curve to the left",
       "Dangerous curve to the right", "Double curve", "Bumpy road",
       "Slippery road", "Road narrows on the right", "Road work",
       "Traffic signals", "Pedestrians", "Children crossing",
       "Bicycles crossing", "Beware of ice/snow", "Wild animals crossing",
       "End of all speed and passing limits", "Turn right ahead",
       "Turn left ahead", "Ahead only", "Go straight or right",
       "Go straight or left", "Keep right", "Keep left",
       "Roundabout mandatory", "End of no passing",
       "End of no passing by vehicles over 3.5 metric tons" >>

\* The GTSRB table: class id -> name, keys 0..42.
LABELS == [i \in 0 .. (Len(LabelNames) - 1) |-> LabelNames[i + 1]]

\* f"Unknown Class {k}"
UnknownClass(k) == "Unknown Class " \o ToString(k)

\* dict.get(k, default)
DictGet(t, k, default) == IF k \in DOMAIN t THEN t[k] ELSE default

----------------------------------------------------------------------------
(* Uploads *)

ImagePng == <<"i", "m", "a", "g", "e", "/", "p", "n", "g">>
ImageJpeg == <<"i", "m", "a", "g", "e", "/", "j", "p", "e", "g">>
ImageNoSlash == <<"i", "m", "a", "g", "e">>
TextPlain == <<"t", "e", "x", "t", "/", "p", "l", "a", "i", "n">>
EmptyType == << >>
NoContentType == <<"None">>

ImagePrefix == <<"i", "m", "a", "g", "e", "/">>

ContentTypes ==
    {ImagePng, ImageJpeg, ImageNoSlash, TextPlain, EmptyType, NoContentType}

\* The uploaded bytes: a decodable image, or bytes PIL cannot identify.
ByteKinds == {"image", "garbage"}

Uploads == [content_type : ContentTypes, bytes : ByteKinds, filename : {"sign.png"}]

\* str.startswith(prefix)
StartsWith(s, prefix) ==
    /\ Len(s) >= Len(prefix)
    /\ SubSeq(s, 1, Len(prefix)) = prefix

----------------------------------------------------------------------------
(* Model scores and output vectors *)

Half == ScoreUnit \div 2

Over == ScoreUnit + Half

\* 0.0, 0.5, 1.0, 1.5 and NaN: a softmax head stays in [0,1], a linear head
\* or a diverged model does not.
ScoreValues == {0, Half, ScoreUnit, Over, NaN}

IsNaN(x) == x = NaN

Max(a, b) == IF a >= b THEN a ELSE b

\* Every output vector with 0..MaxShortLen classes.
ShortVectors == UNION {[0 .. (n - 1) -> ScoreValues] : n \in 0 .. MaxShortLen}

\* An output vector with one class per label, or with one class more: a ramp
\* of pairwise distinct small scores with two entries overridden.
LongLens == {Len(LabelNames), Len(LabelNames) + 1}

LongVector(n, up, a, sa, b, sb) ==
    [i \in 0 .. (n - 1) |->
        IF i = a THEN sa
        ELSE IF i = b THEN sb
        ELSE IF up THEN i ELSE n - 1 - i]

LongVectors ==
    {LongVector(n, up, a, sa, b, sb) :
        n \in LongLens, up \in BOOLEAN,
        a \in {0}, sa \in ScoreValues,
        b \in {1}, sb \in ScoreValues}
    \cup
    {LongVector(n, up, n - 1, sa, b, sb) :
        n \in LongLens, up \in BOOLEAN,
        sa \in ScoreValues,
        b \in {0}, sb \in ScoreValues}

OutputVectors == ShortVectors \cup LongVectors

VecLen(v) == Cardinality(DOMAIN v)

----------------------------------------------------------------------------
(* numpy *)

\* np.argmax(v): the first index of the maximum; a NaN counts as the maximum.
\* Defined for a non-empty v (numpy raises ValueError on an empty one).
ArgMax(v) ==
    LET nans == {i \in DOMAIN v : IsNaN(v[i])}
        best == {i \in DOMAIN v : \A j \in DOMAIN v : v[j] <= v[i]}
        first(S) == CHOOSE i \in S : \A j \in S : i <= j
    IN  IF nans # {} THEN first(nans) ELSE first(best)

\* The order np.argsort sorts by: ascending, NaN last.
ScoreLess(x, y) == ~IsNaN(x) /\ (IsNaN(y) \/ x < y)

\* np.argsort's default kind is an unstable sort: the order of equal scores
\* depends on the build (insertion sort, introsort, SIMD sort).  tb ranks the
\* indices; equal scores come out in the order of tb.
TieBreaks(v) ==
    IF VecLen(v) <= MaxShortLen
    THEN Permutations(DOMAIN v)
    ELSE {[i \in DOMAIN v |-> i], [i \in DOMAIN v |-> VecLen(v) - 1 - i]}

\* Whether index j sorts before index i.
SortsBefore(v, tb, j, i) ==
    \/ ScoreLess(v[j], v[i])
    \/ (~ScoreLess(v[i], v[j]) /\ tb[j] < tb[i])

\* The pivot of a partition step: the middle index of S.
Pivot(S) ==
    CHOOSE p \in S :
        Cardinality({j \in S : j < p}) = Cardinality(S) \div 2

RECURSIVE QuickSort(_, _, _)
\* The indices S of v in ascending order of score: quicksort, as numpy's
\* default kind.
QuickSort(v, tb, S) ==
    IF S = {} THEN << >>
    ELSE LET p == Pivot(S)
             lower == {j \in S \ {p} : SortsBefore(v, tb, j, p)}
             upper == (S \ {p}) \ lower
         IN  QuickSort(v, tb, lower) \o <<p>> \o QuickSort(v, tb, upper)

\* np.argsort(v): the indices of v in ascending order of score, as a sequence.
ArgSort(v, tb) == QuickSort(v, tb, DOMAIN v)

\* The 3 of [-3:].
TopK == 3

\* s[-k:]
LastK(s, k) == SubSeq(s, Max(1, Len(s) - k + 1), Len(s))

\* s[::-1]
Reversed(s) == [k \in 1 .. Len(s) |-> s[Len(s) + 1 - k]]

\* np.argsort(predictions[0])[-3:][::-1]
Top3NotReversed(v, tb) == LastK(ArgSort(v, tb), TopK)

Top3Indices(v, tb) == Reversed(LastK(ArgSort(v, tb), TopK))

----------------------------------------------------------------------------
(* Responses *)

NoBody == [empty |-> TRUE]

NoDetail == ""

NoFile == [content_type |-> EmptyType, bytes |-> "none", filename |-> "none"]

\* No response is being sent.
NoResponse ==
    [op |-> "none", status |-> 0, raised |-> "none", caught |-> "none",
     detail |-> NoDetail, body |-> NoBody, calls |-> {}, file |-> NoFile,
     vec |-> << >>]

\* A handler's return value, sent with status 200.
Ok(op, body) ==
    [NoResponse EXCEPT !.op = op, !.status = 200, !.body = body]

\* raise HTTPException(status_code=status, detail=detail)
HTTPException(op, status, detail) ==
    [NoResponse EXCEPT !.op = op, !.status = status,
                       !.raised = "HTTPException", !.detail = detail]

\* An exception that leaves the handler: the server answers with its own
\* 500 Internal Server Error, which carries no detail.
Unhandled(op, exc) ==
    [NoResponse EXCEPT !.op = op, !.status = 500, !.raised = exc]

ModelNotLoaded == "Model yuklenmedi"

InvalidFileType == "Gecersiz dosya tipi. Lutfen bir goruntu dosyasi yukleyin."

\* f"Tahmin sirasinda hata olustu: {str(e)}" (the strings are transliterated)
PredictionError(e) == "Tahmin sirasinda hata olustu: " \o e

----------------------------------------------------------------------------
(* load_model *)

LoadOutcomes == {"loaded", "error"}

\* The startup hook on a handle m: what tf.keras.models.load_model does is
\* `outcome`.  The except clause prints and re-raises.  raised: the hook
\* raised, and the application startup failed.
load_model_swallow(m, outcome) ==
    [model |-> IF outcome = "loaded" THEN KerasModel ELSE m, raised |-> FALSE]

load_model(m, outcome) ==
    IF outcome = "loaded"
    THEN [model |-> KerasModel, raised |-> FALSE]
    ELSE [model |-> m, raised |-> TRUE]

----------------------------------------------------------------------------
(* Handlers *)

root ==
    Ok("root",
       [message |-> "Traffic Sign Classification API", version |-> "1.0.0"])

health_check_always_ok(m) ==
    Ok("health",
       [status |-> "healthy", model_loaded |-> TRUE, model_path |-> MODEL_PATH])

health_check(m) ==
    IF m = None
    THEN HTTPException("health", 503, ModelNotLoaded)
    ELSE Ok("health",
            [status |-> "healthy", model_loaded |-> TRUE,
             model_path |-> MODEL_PATH])

get_labels_off_by_one(t) ==
    Ok("labels", [total_classes |-> Cardinality(DOMAIN t) - 1, labels |-> t])

get_labels(t) ==
    Ok("labels", [total_classes |-> Cardinality(DOMAIN t), labels |-> t])

\* predict up to `await file.read()`: the model check, then the file type
\* check.  done = FALSE: the handler is suspended at the await.
predict_checks_type_first(m, file) ==
    IF file.content_type = NoContentType
    THEN [done |-> TRUE,
          resp |-> [Unhandled("predict", "AttributeError") EXCEPT !.file = file]]
    ELSE IF ~StartsWith(file.content_type, ImagePrefix)
    THEN [done |-> TRUE,
          resp |-> [HTTPException("predict", 400, InvalidFileType)
                        EXCEPT !.file = file]]
    ELSE IF m = None
    THEN [done |-> TRUE,
          resp |-> [HTTPException("predict", 503, ModelNotLoaded)
                        EXCEPT !.file = file]]
    ELSE [done |-> FALSE, resp |-> NoResponse]

predict_checks(m, file) ==
    IF m = None
    THEN [done |-> TRUE,
          resp |-> [HTTPException("predict", 503, ModelNotLoaded)
                        EXCEPT !.file = file]]
    \* None has no attribute startswith: AttributeError, outside the try.
    ELSE IF file.content_type = NoContentType
    THEN [done |-> TRUE,
          resp |-> [Unhandled("predict", "AttributeError") EXCEPT !.file = file]]
    ELSE IF ~StartsWith(file.content_type, ImagePrefix)
    THEN [done |-> TRUE,
          resp |-> [HTTPException("predict", 400, InvalidFileType)
                        EXCEPT !.file = file]]
    ELSE [done |-> FALSE, resp |-> NoResponse]

\* What the libraries called in the try block do, beyond what the upload and
\* the output vector decide: file.read() or model.predict() may raise.
Faults == {"none", "read", "predict"}

\* The except clause: any Exception becomes HTTP 500 with its text.
\* caught is the exception the clause caught, calls the library calls made.
on_exception_success_false(file, e, calls) ==
    [Ok("predict", [success |-> FALSE, error |-> e])
        EXCEPT !.file = file, !.calls = calls, !.caught = e]

on_exception(file, e, calls) ==
    [HTTPException("predict", 500, PredictionError(e))
        EXCEPT !.file = file, !.calls = calls, !.caught = e]

\* One entry of top_3_predictions.
Top3EntryShiftedLabel(v, idx) ==
    [class_id |-> idx,
     label |-> DictGet(LABELS, idx + 1, UnknownClass(idx)),
     confidence |-> v[idx]]

Top3Entry(v, idx) ==
    [class_id |-> idx,
     label |-> DictGet(LABELS, idx, UnknownClass(idx)),
     confidence |-> v[idx]]

\* The result dict of predict for the output vector v.
predict_result(file, v, tb) ==
    LET predicted_class == ArgMax(v)
        confidence == v[predicted_class]
        label == DictGet(LABELS, predicted_class, UnknownClass(predicted_class))
        top_3_indices == Top3Indices(v, tb)
        top_3_predictions ==
            [k \in 1 .. Len(top_3_indices) |-> Top3Entry(v, top_3_indices[k])]
    IN  [success |-> TRUE,
         prediction |-> [class_id |-> predicted_class, label |-> label,
                         confidence |-> confidence],
         top_3_predictions |-> top_3_predictions,
         filename |-> file.filename]

\* json.dumps(allow_nan=False) in JSONResponse refuses a NaN.
JsonSerializable(result) ==
    /\ ~IsNaN(result.prediction.confidence)
    /\ \A k \in 1 .. Len(result.top_3_predictions) :
           ~IsNaN(result.top_3_predictions[k].confidence)

\* The try block of predict and its except clause, from file.read() on.
predict_try(m, file, fault, v, tb) ==
    IF fault = "read"
    THEN on_exception(file, "OSError", {"read"})
    ELSE IF file.bytes # "image"
    THEN on_exception(file, "UnidentifiedImageError", {"read", "preprocess"})
    ELSE IF m = None
    THEN on_exception(file, "AttributeError", {"read", "preprocess"})
    ELSE IF fault = "predict"
    THEN on_exception(file, "InvalidArgumentError",
                      {"read", "preprocess", "model.predict"})
    ELSE IF VecLen(v) = 0
    THEN [on_exception(file, "ValueError",
                       {"read", "preprocess", "model.predict"})
             EXCEPT !.vec = v]
    ELSE IF ~JsonSerializable(predict_result(file, v, tb))
    THEN [on_exception(file, "ValueError",
                       {"read", "preprocess", "model.predict"})
             EXCEPT !.vec = v]
    ELSE [Ok("predict", predict_result(file, v, tb))
             EXCEPT !.file = file, !.vec = v,
                    !.calls = {"read", "preprocess", "model.predict"}]

----------------------------------------------------------------------------
(* The state machine *)

Init ==
    /\ model = None
    /\ startup = "pending"
    /\ labels = LABELS
    /\ pending = {}
    /\ resp = NoResponse

\* @app.on_event("startup"): runs once.
LoadModel ==
    /\ startup = "pending"
    /\ \E outcome \in LoadOutcomes :
         LET r == load_model(model, outcome)
         IN  /\ model' = r.model
             /\ startup' = IF r.raised THEN "failed" ELSE "complete"
    /\ UNCHANGED <<labels, pending, resp>>

Root ==
    /\ resp = NoResponse
    /\ resp' = root
    /\ UNCHANGED <<model, startup, labels, pending>>

HealthCheck ==
    /\ resp = NoResponse
    /\ resp' = health_check(model)
    /\ UNCHANGED <<model, startup, labels, pending>>

GetLabels ==
    /\ resp = NoResponse
    /\ resp' = get_labels(labels)
    /\ UNCHANGED <<model, startup, labels, pending>>

\* POST /predict arrives and runs to its first response or to the await.
PredictBegin(file) ==
    /\ resp = NoResponse
    /\ file \notin pending
    /\ Cardinality(pending) < MaxInFlight
    /\ LET r == predict_checks(model, file)
       IN  /\ resp' = r.resp
           /\ pending' = IF r.done THEN pending ELSE pending \cup {file}
    /\ UNCHANGED <<model, startup, labels>>

\* The output vectors model.predict can return for this call.
VectorsFor(file, fault) ==
    IF fault = "none" /\ file.bytes = "image" THEN OutputVectors ELSE {<< >>}

\* A suspended /predict resumes after the await and runs to its response.
PredictFinish(file) ==
    /\ resp = NoResponse
    /\ file \in pending
    /\ \E fault \in Faults :
         \E v \in VectorsFor(file, fault) :
           \E tb \in TieBreaks(v) :
             resp' = predict_try(model, file, fault, v, tb)
    /\ pending' = pending \ {file}
    /\ UNCHANGED <<model, startup, labels>>

\* The response goes out to the client.
SendResponse ==
    /\ resp # NoResponse
    /\ resp' = NoResponse
    /\ UNCHANGED <<model, startup, labels, pending>>

Next ==
    \/ LoadModel
    \/ Root
    \/ HealthCheck
    \/ GetLabels
    \/ \E file \in Uploads : PredictBegin(file)
    \/ \E file \in pending : PredictFinish(file)
    \/ SendResponse

Spec == Init /\ [][Next]_vars

----------------------------------------------------------------------------
(* Properties *)

\* A handler has just produced the response resp' to a request on `op`.
Answers(op) == resp.op = "none" /\ resp'.op = op

\* resp is a 200 success body of /predict.
PredictSuccess == resp.op = "predict" /\ resp.status = 200

\* f.content_type is an image type.
IsImageType(ct) == ct # NoContentType /\ StartsWith(ct, ImagePrefix)

\* The prediction and the top-3 entries of the success body resp.
Entries ==
    {resp.body.prediction}
    \cup {resp.body.top_3_predictions[k] :
            k \in 1 .. Len(resp.body.top_3_predictions)}

InUnitInterval(x) == 0 <= x /\ x <= ScoreUnit

Min(a, b) == IF a <= b THEN a ELSE b

\* C1: /health answers 503 in every state where the model handle is unset,
\* and 200 with status "healthy" and model_loaded true in every state where
\* it is set; there is no other outcome.
C1_HealthReflectsModel ==
    [][Answers("health") =>
         IF model = None
         THEN /\ resp'.status = 503
              /\ resp'.raised = "HTTPException"
         ELSE /\ resp'.status = 200
              /\ resp'.raised = "none"
              /\ resp'.body.status = "healthy"
              /\ resp'.body.model_loaded = TRUE]_vars

C1_Witness ==
    /\ resp.op = "health"
    /\ resp.status = 503
    /\ model = None

\* C2: with the model loaded, every upload whose content type is not an
\* image type is answered 400, and its bytes are never read, preprocessed
\* or passed to the model.
C2_NonImageRejected ==
    [][(Answers("predict") /\ model # None
          /\ ~IsImageType(resp'.file.content_type)) =>
         /\ resp'.status = 400
         /\ resp'.calls = {}]_vars

\* C3: /predict answers 503 whenever the model handle is unset, whatever the
\* upload's content type or bytes; never 400, 500 or 200.
C3_UnloadedIs503 ==
    [][(Answers("predict") /\ model = None) =>
         /\ resp'.status = 503
         /\ resp'.raised = "HTTPException"
         /\ resp'.detail = ModelNotLoaded
         /\ resp'.calls = {}]_vars

C3_Witness ==
    /\ resp.op = "predict"
    /\ resp.status = 503
    /\ resp.file.content_type = NoContentType

\* C4: with the model loaded and an image content type, an exception raised
\* while reading, preprocessing, running the model or shaping the response
\* yields 500 with a detail that carries the exception text, never a 200
\* success body; undecodable bytes, an empty output vector and a NaN
\* confidence are such exceptions.
C4_InferenceFailureIs500 ==
    [][(Answers("predict") /\ model # None
          /\ IsImageType(resp'.file.content_type)
          /\ \/ resp'.caught # "none"
             \/ resp'.file.bytes = "garbage"
             \/ resp'.vec = << >>
             \/ \E i \in DOMAIN resp'.vec :
                  IsNaN(resp'.vec[i]) /\ i = ArgMax(resp'.vec))
       => /\ resp'.status = 500
          /\ resp'.raised = "HTTPException"
          /\ resp'.caught # "none"
          /\ resp'.detail = PredictionError(resp'.caught)
          /\ resp'.body = NoBody]_vars

C4_Witness ==
    /\ resp.op = "predict"
    /\ resp.status = 500
    /\ resp.caught = "UnidentifiedImageError"
    /\ model # None

\* C5: every request to /health or /predict that does not succeed ends in
\* one of 400, 503, 500, raised by the handler with its detail message; no
\* failure leaves the handler as an unmapped exception.
C5_FailuresMapped ==
    (resp.op \in {"health", "predict"} /\ resp.status # 200)
    => /\ resp.raised = "HTTPException"
       /\ resp.status \in {400, 503, 500}
       /\ resp.detail # NoDetail

\* C6 as stated: for every model output vector, every returned class id is
\* in 0..42, its label is the LABELS entry, and every confidence is in [0,1].
C6_InLabelRange ==
    PredictSuccess =>
      \A e \in Entries :
        /\ e.class_id \in 0 .. 42
        /\ e.label = LABELS[e.class_id]
        /\ InUnitInterval(e.confidence)

\* C6 amended: every returned class id indexes the output vector, its
\* confidence is the model's score for it, and its label is the LABELS
\* entry when the id is in 0..42 and the "Unknown Class" fallback
\* otherwise; hence ids are in 0..42 with LABELS labels whenever the vector
\* has at most 43 scores, and confidences are in [0,1] whenever the scores
\* are.
C6_InVectorRange ==
    PredictSuccess =>
      \A e \in Entries :
        /\ e.class_id \in DOMAIN resp.vec
        /\ e.confidence = resp.vec[e.class_id]
        /\ e.class_id \in 0 .. 42 => e.label = LABELS[e.class_id]
        /\ e.class_id \notin 0 .. 42 => e.label = UnknownClass(e.class_id)
        /\ VecLen(resp.vec) <= 43 => e.class_id \in 0 .. 42
        /\ (\A i \in DOMAIN resp.vec : InUnitInterval(resp.vec[i]))
              => InUnitInterval(e.confidence)

C6_Witness ==
    /\ PredictSuccess
    /\ VecLen(resp.vec) = 43
    /\ resp.body.prediction.class_id = 42
    /\ resp.body.prediction.label = LABELS[42]

\* C7: in every state /labels answers 200 with total_classes = 43 and a
\* table whose keys are exactly 0..42, and no request changes the table.
C7_LabelsHas43 ==
    /\ labels = LABELS
    /\ resp.op = "labels" =>
         /\ resp.status = 200
         /\ resp.body.total_classes = 43
         /\ DOMAIN resp.body.labels = 0 .. 42
         /\ resp.body.labels = LABELS

C7_Witness ==
    /\ resp.op = "labels"
    /\ startup = "failed"
    /\ model = None

\* C8: the model handle is assigned only by the startup hook, at most once,
\* from unset to set; no handler step changes it; a failed load leaves it
\* unset and fails the startup; it never goes from set back to unset.
C8_ModelLoadedOnce ==
    [][/\ model' # model =>
            /\ model = None /\ model' # None
            /\ startup = "pending" /\ startup' = "complete"
            /\ resp' = resp /\ pending' = pending
       /\ startup' = "failed" => model' = None
       /\ startup' = "complete" => model' # None
       /\ model # None => model' = model]_vars

C8_Witness ==
    /\ startup = "complete"
    /\ model = KerasModel
    /\ pending # {}
    /\ resp.op = "predict"
    /\ resp.status = 500

\* The properties of top_3_predictions other than its length.
Top3Ordered ==
    LET t == resp.body.top_3_predictions
        ids == {t[k].class_id : k \in 1 .. Len(t)}
    IN  /\ \A j, k \in 1 .. Len(t) : j # k => t[j].class_id # t[k].class_id
        /\ \A k \in 1 .. Len(t) - 1 : t[k].confidence >= t[k + 1].confidence
        /\ \A k \in 1 .. Len(t) :
             /\ t[k].class_id \in DOMAIN resp.vec
             /\ t[k].confidence = resp.vec[t[k].class_id]
        /\ \A i \in DOMAIN resp.vec \ ids :
             \A k \in 1 .. Len(t) : resp.vec[i] <= t[k].confidence

\* C9 as stated: on success top_3_predictions holds exactly 3 entries with
\* distinct class ids, in non-increasing order of confidence, each
\* confidence the model's score, and no unlisted class scores higher.
C9_Top3Exactly3 ==
    PredictSuccess =>
      /\ Len(resp.body.top_3_predictions) = 3
      /\ Top3Ordered

\* C9 amended: top_3_predictions holds min(3, n) entries for an output
\* vector of n scores (exactly 3 whenever n >= 3), with distinct class ids,
\* in non-increasing order of confidence, each confidence the model's
\* score, and no unlisted class scores higher.
C9_Top3OfVector ==
    PredictSuccess =>
      /\ Len(resp.body.top_3_predictions) = Min(3, VecLen(resp.vec))
      /\ Top3Ordered

C9_Witness ==
    /\ PredictSuccess
    /\ VecLen(resp.vec) = 43
    /\ Len(resp.body.top_3_predictions) = 3
    /\ resp.body.top_3_predictions[1].confidence
         > resp.body.top_3_predictions[3].confidence

\* C10: on every success the prediction is the first of the top-3 entries,
\* ties for the maximum score included.
C10_PredictionIsFirstOfTop3 ==
    PredictSuccess =>
      LET p == resp.body.prediction
          f == resp.body.top_3_predictions[1]
      IN  /\ p.class_id = f.class_id
          /\ p.label = f.label
          /\ p.confidence = f.confidence

====
